---- MODULE Spec2Model ----
(***************************************************************************)
(* A model of sleepecg/io/sleep_readers.py: the NSRR annotation parser     *)
(* (_parse_nsrr_xml), the MESA activity alignment, the subject tables, and *)
(* the lazy record generators read_mesa, read_shhs and read_slpdb.         *)
(*                                                                         *)
(* Times of day are whole seconds since midnight; durations read with      *)
(* float() are counted in half seconds, so that the truncations the code   *)
(* performs (int(float(..)), datetime.second) are visible.                 *)
(***************************************************************************)
EXTENDS Integers, Sequences, FiniteSets, TLC

VARIABLES
    fn_pc,      \* position of a single function application: "ready" | "done"
    fn_in,      \* the argument the function is applied to
    fn_out,     \* its result
    args,       \* the arguments of the current entry-point call
    pc,         \* the generator: "idle" | "created" | "running" | "suspended"
                \*                | "done" | "raised"
    calls,      \* number of entry-point calls made so far
    requests,   \* number of next() calls the consumer made on this generator
    next_index, \* position in requested_records of the next record id
    subject_data,           \* record ids with a row in the subject table
    overlap_data,           \* record ids with an entry in the overlap table
    heartbeats_files,       \* preprocessed/heartbeats/<record_id>.npy
    activity_counts_files,  \* preprocessed/activity_counts/<record_id>-activity-counts.npy
    edf_files,              \* record ids whose .edf is in the local data directory
    detected,   \* per record id, the heartbeat times detection last computed
    printed,    \* the "Skipping ..." diagnostics of this generator, in order
    emitted,    \* the ids of the records yielded by this generator, in order
    raised,     \* the exception that ended this generator, "" if none
    last,       \* what the loop body did for the record it processed last
    fetched,    \* record ids whose files this generator has downloaded
    decoded,    \* record ids whose files this generator has read and decoded
    number_of_sleep_stages  \* read_slpdb's local of that name: <<>> while
                            \* unassigned, else <<value>>

fn_vars == <<fn_pc, fn_in, fn_out>>

driver_vars ==
    <<args, pc, calls, requests, next_index, subject_data, overlap_data,
      heartbeats_files, activity_counts_files, edf_files, detected, printed,
      emitted, raised, last, fetched, decoded, number_of_sleep_stages>>

vars == <<fn_vars, driver_vars>>

(***************************************************************************)
(* Bounds of the model.                                                    *)
(***************************************************************************)
MaxEvents == 3
NumRecords == 2
MaxCalls == 2
MaxRows == 4
MaxStages == 4
MaxDurHalf == 240

(***************************************************************************)
(* class SleepStage(IntEnum)                                               *)
(***************************************************************************)
UNDEFINED == 0
N3 == 1
N2 == 2
N1 == 3
REM == 4
WAKE == 5

STAGE_MAPPING ==
    ("Wake|0" :> WAKE) @@ ("Stage 1 sleep|1" :> N1) @@ ("Stage 2 sleep|2" :> N2)
    @@ ("Stage 3 sleep|3" :> N3) @@ ("Stage 4 sleep|4" :> N3)
    @@ ("REM sleep|5" :> REM) @@ ("Unscored|9" :> UNDEFINED)

(***************************************************************************)
(* Small helpers on sequences.                                             *)
(***************************************************************************)
Repeat(x, n) == [i \in 1..n |-> x]

SeqsUpTo(S, n) == UNION {[1..k -> S] : k \in 0..n}

\* ndarray.sort(): ascending insertion of each element
RECURSIVE InsertSorted(_, _)
InsertSorted(x, sorted) ==
    IF sorted = <<>> THEN <<x>>
    ELSE IF x <= Head(sorted) THEN <<x>> \o sorted
    ELSE <<Head(sorted)>> \o InsertSorted(x, Tail(sorted))

RECURSIVE SortAscending(_)
SortAscending(seq) == IF seq = <<>> THEN <<>> ELSE InsertSorted(Head(seq), SortAscending(Tail(seq)))

IsNonDecreasing(seq) == \A i \in 1..(Len(seq) - 1) : seq[i] <= seq[i + 1]

(***************************************************************************)
(* Files holding one array (.npy), the requested records, and the state    *)
(* of the generators before the first call.                                *)
(***************************************************************************)
NoArray == [present |-> FALSE, data |-> <<>>]

Array(data) == [present |-> TRUE, data |-> data]

RecordIds == 1..NumRecords

requested_records == [i \in 1..NumRecords |-> i]

NoArgs ==
    [dataset |-> "", heartbeats_source |-> "", activity_source |-> "",
     offline |-> FALSE, keep_edfs |-> FALSE]

NoRecord ==
    [id |-> 0, sleep_stages |-> <<>>, sleep_stage_duration |-> 0,
     recording_start_time |-> 0, heartbeat_times |-> <<>>,
     has_activity_counts |-> FALSE, activity_counts |-> <<>>]

NoLast ==
    [record_id |-> 0, outcome |-> "none", stage |-> "", cause |-> "",
     exception |-> "", record |-> NoRecord, did_detect |-> FALSE,
     edf_was_available |-> FALSE, unavailable |-> {}, annot_st |-> <<>>]

GeneratorReset ==
    /\ requests' = 0
    /\ next_index' = 1
    /\ subject_data' = {}
    /\ overlap_data' = {}
    /\ printed' = <<>>
    /\ emitted' = <<>>
    /\ raised' = ""
    /\ last' = NoLast
    /\ fetched' = {}
    /\ decoded' = {}
    /\ number_of_sleep_stages' = <<>>

GeneratorIdle ==
    /\ args = NoArgs
    /\ pc = "idle"
    /\ calls = 0
    /\ requests = 0
    /\ next_index = 1
    /\ subject_data = {}
    /\ overlap_data = {}
    /\ printed = <<>>
    /\ emitted = <<>>
    /\ raised = ""
    /\ last = NoLast
    /\ fetched = {}
    /\ decoded = {}
    /\ number_of_sleep_stages = <<>>

DriverIdle ==
    /\ GeneratorIdle
    /\ heartbeats_files = [r \in RecordIds |-> NoArray]
    /\ activity_counts_files = [r \in RecordIds |-> NoArray]
    /\ detected = [r \in RecordIds |-> NoArray]

FnIdle ==
    /\ fn_pc = "idle"
    /\ fn_in = <<>>
    /\ fn_out = <<>>

(***************************************************************************)
(* The annotation document: the EpochLength field and the children of the  *)
(* ScoredEvents element. Duration is in half seconds; ClockTime is the     *)
(* <<hours, minutes, seconds>> of the "dd.mm.yy HH.MM.SS" text.            *)
(***************************************************************************)
ScoredEvent(type, concept, hasDur, dur, hasClock, clock) ==
    [EventType |-> type, EventConcept |-> concept,
     HasDuration |-> hasDur, Duration |-> dur,
     HasClockTime |-> hasClock, ClockTime |-> clock]

IntOfFloat_rounds(durHalf) == (durHalf + 1) \div 2

\* int(float(text)) of a Duration text: truncation to whole seconds
IntOfFloat(durHalf) == durHalf \div 2

\* datetime.strptime(text, "%H.%M.%S").time(), as seconds since midnight
StrpTime(clock) == clock[1] * 3600 + clock[2] * 60 + clock[3]

ParseFailure(kind, msg) ==
    [ok |-> FALSE, error |-> kind, message |-> msg,
     sleep_stages |-> <<>>, sleep_stage_duration |-> 0,
     recording_start_time |-> 0, recording_duration |-> 0]

\* One iteration of the loop over the events; acc carries start_time and
\* annot_stages, and the exception that ended the loop if there is one.
ScanEvent(event, epoch_length, acc) ==
    LET afterStart ==
            IF event.EventConcept = "Recording Start Time"
            THEN IF event.HasClockTime
                 THEN [acc EXCEPT !.has_start = TRUE,
                                  !.start_time = StrpTime(event.ClockTime)]
                 ELSE [acc EXCEPT !.error = "IndexError"]
            ELSE acc
    IN  IF afterStart.error # "" THEN afterStart
        ELSE IF event.EventType # "Stages|Stages" THEN afterStart
        ELSE IF ~event.HasDuration
             THEN [afterStart EXCEPT !.error = "ValueError"]
        ELSE IF event.EventConcept \notin DOMAIN STAGE_MAPPING
             THEN [afterStart EXCEPT !.error = "KeyError"]
        ELSE IF epoch_length = 0
             THEN [afterStart EXCEPT !.error = "ZeroDivisionError"]
        ELSE [afterStart EXCEPT !.annot_stages =
                 @ \o Repeat(STAGE_MAPPING[event.EventConcept],
                             IntOfFloat(event.Duration) \div epoch_length)]

RECURSIVE ScanEvents(_, _, _, _)
ScanEvents(events, i, epoch_length, acc) ==
    IF i > Len(events) \/ acc.error # "" THEN acc
    ELSE ScanEvents(events, i + 1, epoch_length,
                    ScanEvent(events[i], epoch_length, acc))

_parse_nsrr_xml(doc) ==
    IF ~doc.HasEpochLength
    THEN ParseFailure("RuntimeError", "EpochLength not found")
    ELSE IF Len(doc.ScoredEvents) = 0
    THEN ParseFailure("RuntimeError", "Recording duration not found")
    ELSE IF ~doc.ScoredEvents[1].HasDuration
    THEN ParseFailure("ValueError", "could not convert string to float")
    ELSE
      LET scan == ScanEvents(doc.ScoredEvents, 1, doc.EpochLength,
                             [error |-> "", has_start |-> FALSE,
                              start_time |-> 0, annot_stages |-> <<>>])
      IN  IF scan.error # "" THEN ParseFailure(scan.error, "")
          ELSE IF ~scan.has_start
          THEN ParseFailure("RuntimeError", "'Recording Start Time' not found")
          ELSE [ok |-> TRUE, error |-> "", message |-> "",
                sleep_stages |-> scan.annot_stages,
                sleep_stage_duration |-> doc.EpochLength,
                recording_start_time |-> scan.start_time,
                recording_duration |-> doc.ScoredEvents[1].Duration]

(***************************************************************************)
(* MESA activity alignment (the body of read_mesa's activity_source ==     *)
(* "actigraphy" branch, from the end-time computation to the conversion).  *)
(* A row of activity_data is [line, linetime, activity]; linetime is a     *)
(* sequence of one-character strings, activity the text of the cell.       *)
(***************************************************************************)
Min(a, b) == IF a < b THEN a ELSE b

Max(a, b) == IF a > b THEN a ELSE b

SecondsPerDay == 86400

rounding_seconds_strict(second) ==
    IF (second % 30) > 15 THEN 30 - (second % 30) ELSE -(second % 30)

\* rounding_seconds, from recording_end_time.second
rounding_seconds(second) ==
    IF (second % 30) >= 15 THEN 30 - (second % 30) ELSE -(second % 30)

\* recording_end_time = today's midnight + recording_start_time
\* + timedelta(seconds=recording_duration), in half seconds since that midnight
RecordingEndHalf(recording_start_time, recording_duration) ==
    2 * recording_start_time + recording_duration

\* datetime.second of a time given in half seconds
SecondOf(timeHalf) == (timeHalf \div 2) % 60

\* recording_end_time + timedelta(seconds=rounding_seconds)
RoundedEndHalf(endHalf) == endHalf + 2 * rounding_seconds(SecondOf(endHalf))

Digit(n) == <<"0", "1", "2", "3", "4", "5", "6", "7", "8", "9">>[n + 1]

TwoDigits(n) == <<Digit(n \div 10), Digit(n % 10)>>

RECURSIVE LStripZeros(_)
LStripZeros(str) ==
    IF str # <<>> /\ Head(str) = "0" THEN LStripZeros(Tail(str)) ELSE str

\* recording_end_time.strftime("%H:%M:%S").lstrip("0")
EndTimeStr(timeHalf) ==
    LET t == (timeHalf \div 2) % SecondsPerDay
    IN  LStripZeros(TwoDigits(t \div 3600) \o <<":">> \o TwoDigits((t % 3600) \div 60)
                    \o <<":">> \o TwoDigits(t % 60))

\* seq[a:b] of Python, for 0 <= a and 0 <= b
PySlice(seq, a, b) ==
    LET lo == Min(a, Len(seq))
        hi == Max(lo, Min(b, Len(seq)))
    IN  [i \in 1..(hi - lo) |-> seq[lo + i]]

\* seq[-k:] of Python, for k > 0: the last k elements, or all of them
PyTail(seq, k) == PySlice(seq, Max(0, Len(seq) - k), Len(seq))

\* the for ... else over activity_data: the index of the first row whose
\* linetime equals the label, 0 when the loop ends without break
RECURSIVE FirstMatch(_, _, _)
FirstMatch(activity_data, label, i) ==
    IF i > Len(activity_data) THEN 0
    ELSE IF activity_data[i].linetime = label THEN i
    ELSE FirstMatch(activity_data, label, i + 1)

\* activity_counts[activity_counts == ""] = "0"; astype(float)
AsFloat(cell) == IF cell = "" THEN 0 ELSE (("0" :> 0) @@ ("3" :> 3) @@ ("7" :> 7))[cell]

\* the reconciliation of the candidate's length with the sleep stages'
Reconcile(candidate, n_stages) ==
    LET diff == Len(candidate) - n_stages
    IN  IF diff > 0 THEN SubSeq(candidate, 1, Len(candidate) - diff)
        ELSE IF diff < 0 THEN candidate \o PyTail(candidate, -diff)
        ELSE candidate

AlignActivity(parsed_xml, activity_data, overlap_line) ==
    LET endHalf == RecordingEndHalf(parsed_xml.recording_start_time,
                                    parsed_xml.recording_duration)
        rounded == RoundedEndHalf(endHalf)
        recording_end_time_str == EndTimeStr(rounded)
        start_line == overlap_line + 1
        found == FirstMatch(activity_data, recording_end_time_str, 1)
        end_line == IF found = 0 THEN 0 ELSE activity_data[found].line
        candidate == PySlice([i \in 1..Len(activity_data) |-> activity_data[i].activity],
                             start_line, end_line)
        diff == Len(candidate) - Len(parsed_xml.sleep_stages)
        aligned == Reconcile(candidate, Len(parsed_xml.sleep_stages))
        base == [status |-> "skipped", cause |-> "", end_half |-> endHalf,
                 rounded_half |-> rounded, label |-> recording_end_time_str,
                 start_line |-> start_line, end_line |-> end_line,
                 candidate |-> <<>>, activity_counts |-> <<>>]
    IN  IF found = 0
        THEN [base EXCEPT !.cause = "missing line matching"]
        ELSE IF diff > 2 \/ diff < -2
        THEN [base EXCEPT !.cause = "invalid activity counts",
                          !.candidate = candidate]
        ELSE [base EXCEPT !.status = "aligned", !.candidate = candidate,
                          !.activity_counts =
                              [i \in 1..Len(aligned) |-> AsFloat(aligned[i])]]

(***************************************************************************)
(* Annotation documents the parser is applied to.                          *)
(***************************************************************************)
StartEvent == ScoredEvent("", "Recording Start Time", TRUE, 180, TRUE, <<21, 59, 50>>)

StageEvent(concept, durHalf) == ScoredEvent("Stages|Stages", concept, TRUE, durHalf, FALSE, <<0, 0, 0>>)

ParseEvents ==
    {StartEvent,
     ScoredEvent("", "Recording Start Time", TRUE, 180, FALSE, <<0, 0, 0>>),
     ScoredEvent("Stages|Stages", "Wake|0", FALSE, 0, FALSE, <<0, 0, 0>>),
     ScoredEvent("Respiratory|Respiratory", "Hypopnea|Hypopnea", TRUE, 40, FALSE, <<0, 0, 0>>)}
    \cup {StageEvent(c, d) : c \in {"Wake|0", "Stage 2 sleep|2", "Movement|6"},
                             d \in {90, 119, 120}}

XmlDoc(hasEpoch, epoch, events) ==
    [HasEpochLength |-> hasEpoch, EpochLength |-> epoch, ScoredEvents |-> events]

ParseDocs ==
    {XmlDoc(e[1], e[2], evs) : e \in {<<FALSE, 0>>, <<TRUE, 0>>, <<TRUE, 30>>},
                               evs \in SeqsUpTo(ParseEvents, MaxEvents)}

(***************************************************************************)
(* SpecParse: _parse_nsrr_xml applied to one annotation document.          *)
(***************************************************************************)
InitParse ==
    /\ fn_pc = "ready"
    /\ fn_in \in ParseDocs
    /\ fn_out = ParseFailure("", "")
    /\ DriverIdle
    /\ edf_files = {}

Parse ==
    /\ fn_pc = "ready"
    /\ fn_out' = _parse_nsrr_xml(fn_in)
    /\ fn_pc' = "done"
    /\ UNCHANGED <<fn_in, driver_vars>>

NextParse == Parse

SpecParse == InitParse /\ [][NextParse]_vars

(***************************************************************************)
(* Claim C4.                                                               *)
(***************************************************************************)
StagingEvents(doc) == SelectSeq(doc.ScoredEvents, LAMBDA e : e.EventType = "Stages|Stages")

RECURSIVE SumDeclaredHalf(_)
SumDeclaredHalf(events) ==
    IF events = <<>> THEN 0 ELSE Head(events).Duration + SumDeclaredHalf(Tail(events))

RECURSIVE SumOfEventFloors(_, _)
SumOfEventFloors(events, epoch) ==
    IF events = <<>> THEN 0
    ELSE ((Head(events).Duration \div 2) \div epoch) + SumOfEventFloors(Tail(events), epoch)

\* C4 as stated: for every annotation the parser accepts, the number of
\* emitted epochs equals floor((sum of the staging events' declared
\* Durations) / EpochLength).
C4_TotalIsFloorOfSum ==
    (fn_pc = "done" /\ fn_out.ok /\ fn_in.EpochLength > 0) =>
        Len(fn_out.sleep_stages)
            = SumDeclaredHalf(StagingEvents(fn_in)) \div (2 * fn_in.EpochLength)

\* C4 amended: for every annotation the parser accepts, the number of
\* emitted epochs equals the sum, over the staging events, of
\* floor(floor(Duration) / EpochLength).
C4_TotalIsSumOfFloors ==
    (fn_pc = "done" /\ fn_out.ok /\ fn_in.EpochLength > 0) =>
        Len(fn_out.sleep_stages)
            = SumOfEventFloors(StagingEvents(fn_in), fn_in.EpochLength)

\* An accepted annotation with two staging events whose remainders add up
\* to a further epoch that is not emitted.
C4_Witness ==
    /\ fn_pc = "done"
    /\ fn_out.ok
    /\ fn_in.EpochLength > 0
    /\ Len(StagingEvents(fn_in)) = 2
    /\ Len(fn_out.sleep_stages)
           < SumDeclaredHalf(StagingEvents(fn_in)) \div (2 * fn_in.EpochLength)

(***************************************************************************)
(* Claim C11.                                                              *)
(***************************************************************************)
HasStartEvent(doc) ==
    \E i \in 1..Len(doc.ScoredEvents) :
        doc.ScoredEvents[i].EventConcept = "Recording Start Time"

\* C11 as stated: when the EpochLength field is absent, or the recording
\* duration is absent (no ScoredEvent, or the first ScoredEvent has no
\* Duration), or there is no "Recording Start Time" event, the parser
\* returns no result and fails with one and the same kind of error (the
\* RuntimeError it raises for a missing EpochLength).
C11_MissingFieldSameErrorKind ==
    (/\ fn_pc = "done"
     /\ \/ ~fn_in.HasEpochLength
        \/ Len(fn_in.ScoredEvents) = 0
        \/ ~fn_in.ScoredEvents[1].HasDuration
        \/ ~HasStartEvent(fn_in)) =>
        (~fn_out.ok /\ fn_out.error = "RuntimeError")

(***************************************************************************)
(* Claim C15.                                                              *)
(***************************************************************************)
RECURSIVE ExpectedStages(_, _)
ExpectedStages(events, epoch) ==
    IF events = <<>> THEN <<>>
    ELSE LET e == Head(events)
         IN  (IF e.EventType = "Stages|Stages"
              THEN Repeat(STAGE_MAPPING[e.EventConcept], e.Duration \div (2 * epoch))
              ELSE <<>>)
             \o ExpectedStages(Tail(events), epoch)

HasUnknownStage(doc) ==
    \E i \in 1..Len(doc.ScoredEvents) :
        /\ doc.ScoredEvents[i].EventType = "Stages|Stages"
        /\ doc.ScoredEvents[i].EventConcept \notin DOMAIN STAGE_MAPPING

\* C15: in an accepted annotation every staging event contributes exactly
\* floor(Duration / EpochLength) consecutive entries of its mapped stage, the
\* blocks are in the document order of the events, and the other events
\* contribute nothing; an annotation with a staging label outside the lookup
\* table is not accepted.
C15_StagesExpandInDocumentOrder ==
    fn_pc = "done" =>
        /\ (fn_out.ok /\ fn_in.EpochLength > 0) =>
               fn_out.sleep_stages = ExpectedStages(fn_in.ScoredEvents, fn_in.EpochLength)
        /\ HasUnknownStage(fn_in) => (~fn_out.ok /\ fn_out.error # "")

\* the start event, then staging events of 60 s (Wake) and 45 s (Stage 2)
\* with EpochLength 30: two epochs of Wake, then one of N2
C15_Witness ==
    /\ fn_pc = "done"
    /\ fn_out.ok
    /\ fn_in.EpochLength = 30
    /\ Len(fn_in.ScoredEvents) = 3
    /\ fn_in.ScoredEvents[1].EventType # "Stages|Stages"
    /\ fn_in.ScoredEvents[2] = StageEvent("Wake|0", 120)
    /\ fn_in.ScoredEvents[3] = StageEvent("Stage 2 sleep|2", 90)
    /\ fn_out.sleep_stages = <<WAKE, WAKE, N2>>

(***************************************************************************)
(* Inputs of the alignment: a parsed annotation, the rows of the           *)
(* actigraphy file (row k carries line number k) and the overlap line.     *)
(***************************************************************************)
ParsedOk(start, durHalf, stages) ==
    [ok |-> TRUE, error |-> "", message |-> "",
     sleep_stages |-> stages, sleep_stage_duration |-> 30,
     recording_start_time |-> start, recording_duration |-> durHalf]

\* the linetime text of the actigraphy file: hours unpadded
FileLabel(h, m, s) ==
    (IF h < 10 THEN <<Digit(h)>> ELSE TwoDigits(h)) \o <<":">> \o TwoDigits(m)
        \o <<":">> \o TwoDigits(s)

ActivityTable(cells) ==
    [k \in 1..Len(cells) |->
        [line |-> k, linetime |-> cells[k][1], activity |-> cells[k][2]]]

\* consecutive rows of the file never carry the same clock label; a label
\* that comes back further down is the same time on a later day
ActivityTables ==
    {ActivityTable(cells) :
        cells \in {c \in SeqsUpTo({FileLabel(22, 0, 30), FileLabel(22, 1, 0),
                                   FileLabel(22, 1, 30)} \X {"", "3"}, MaxRows) :
                      \A k \in 1..(Len(c) - 1) : c[k][1] # c[k + 1][1]}}

AlignInputs ==
    {x \in [parsed_xml : {ParsedOk(79190, d, Repeat(N2, n)) :
                              d \in {150, 180}, n \in 0..MaxStages},
            activity_data : ActivityTables,
            overlap_line : 0..(MaxRows - 1)] :
        x.overlap_line < Max(1, Len(x.activity_data))}

RoundInputs ==
    [parsed_xml : {ParsedOk(t, d, <<>>) : t \in {79080, 86310}, d \in 0..MaxDurHalf},
     activity_data : {<<>>},
     overlap_line : {0}]

(***************************************************************************)
(* The per-record inputs of the generators: what the data directory and    *)
(* the NSRR listing hold for one record id when its turn comes.            *)
(*   rpoints_where, activity_where: "local" (file in the data directory),  *)
(*   "listed" (only in the listing, so in checksums), "none".              *)
(***************************************************************************)
DocValid ==
    XmlDoc(TRUE, 30, <<StartEvent, StageEvent("Wake|0", 60),
                       StageEvent("Stage 2 sleep|2", 90)>>)

DocNoEpochLength == XmlDoc(FALSE, 0, DocValid.ScoredEvents)

DriverDocs == {DocValid, DocNoEpochLength}

\* the recording of DocValid ends at 22:01:20, rounded 22:01:30
TableAligned ==
    ActivityTable(<<<<FileLabel(22, 0, 0), "3">>, <<FileLabel(22, 0, 30), "">>,
                    <<FileLabel(22, 1, 0), "7">>, <<FileLabel(22, 1, 30), "3">>>>)

TableNoEndLine ==
    ActivityTable(<<<<FileLabel(21, 0, 0), "3">>, <<FileLabel(21, 0, 30), "3">>>>)

TableTooLong ==
    ActivityTable(<<<<FileLabel(21, 58, 30), "3">>, <<FileLabel(21, 59, 0), "3">>,
                    <<FileLabel(21, 59, 30), "3">>, <<FileLabel(22, 0, 0), "3">>,
                    <<FileLabel(22, 0, 30), "">>, <<FileLabel(22, 1, 0), "7">>,
                    <<FileLabel(22, 1, 30), "3">>>>)

DriverTables == {TableAligned, TableNoEndLine, TableTooLong}

SidecarTimes == {<<2, 3, 5>>, <<5, 2, 3>>}

\* the overlap file's line for a record id that has an entry
OverlapLine(record_id) == 1

\* the EDF signal of a record: detect_heartbeats' sample indices and the
\* sampling frequency
EcgIndices(record_id) == <<4 * record_id, 4 * record_id + 8>>

EcgSamplingFrequency == 4

RecordEnv(rp_where, rp, doc, act_where, table) ==
    [rpoints_where |-> rp_where, rpoints |-> rp, doc |-> doc,
     activity_where |-> act_where, activity_data |-> table]

\* Only what the loop body reads is varied: the rpoints sidecar in
\* "annotation" mode; the actigraphy file in "actigraphy" mode, and there
\* only with an annotation that parses (the file is read after the parse).
RecordEnvs ==
    {RecordEnv(w[1], w[2], d[1], d[2], d[3]) :
        w \in IF args.heartbeats_source = "annotation"
              THEN ({"local", "listed"} \X SidecarTimes) \cup {<<"none", <<>>>>}
              ELSE {<<"none", <<>>>>},
        d \in {<<DocNoEpochLength, "none", <<>>>>}
              \cup IF args.activity_source = "actigraphy"
                   THEN ({DocValid} \X {"local", "listed"} \X DriverTables)
                        \cup {<<DocValid, "none", <<>>>>}
                   ELSE {<<DocValid, "none", <<>>>>}}

AlignIdle == AlignActivity(ParsedOk(0, 0, <<>>), <<>>, 0)

(***************************************************************************)
(* SpecAlign and SpecRound: the alignment applied to one input.            *)
(***************************************************************************)
InitAlign ==
    /\ fn_pc = "ready"
    /\ fn_in \in AlignInputs
    /\ fn_out = AlignIdle
    /\ DriverIdle
    /\ edf_files = {}

InitRound ==
    /\ fn_pc = "ready"
    /\ fn_in \in RoundInputs
    /\ fn_out = AlignIdle
    /\ DriverIdle
    /\ edf_files = {}

Align ==
    /\ fn_pc = "ready"
    /\ fn_out' = AlignActivity(fn_in.parsed_xml, fn_in.activity_data, fn_in.overlap_line)
    /\ fn_pc' = "done"
    /\ UNCHANGED <<fn_in, driver_vars>>

NextAlign == Align

SpecAlign == InitAlign /\ [][NextAlign]_vars

SpecRound == InitRound /\ [][NextAlign]_vars

(***************************************************************************)
(* Claim C3.                                                               *)
(***************************************************************************)
\* C3 as stated: with d = len(candidate) - len(stages), if |d| <= 2 the
\* activity counts are emitted with length exactly len(stages), also when
\* the candidate is shorter than |d| or empty; if |d| > 2 the record is
\* skipped.
C3_LengthMatchesStages ==
    (fn_pc = "done" /\ fn_out.cause # "missing line matching") =>
        LET d == Len(fn_out.candidate) - Len(fn_in.parsed_xml.sleep_stages)
        IN  IF d <= 2 /\ d >= -2
            THEN /\ fn_out.status = "aligned"
                 /\ Len(fn_out.activity_counts) = Len(fn_in.parsed_xml.sleep_stages)
            ELSE fn_out.status = "skipped"

(***************************************************************************)
(* Claim C8.                                                               *)
(***************************************************************************)
RowsFrom(activity_data, label, first) ==
    {k \in first..Len(activity_data) : activity_data[k].linetime = label}

\* C8 as stated: the alignment endpoint is the line number of a row at or
\* after position overlap_line + 1 whose label equals the rounded end time;
\* an equal label on an earlier row is never selected, and with no such row
\* at or after overlap_line + 1 the record is skipped.
C8_EndpointAtOrAfterOverlap ==
    fn_pc = "done" =>
        LET after == RowsFrom(fn_in.activity_data, fn_out.label, fn_in.overlap_line + 1)
        IN  IF after = {}
            THEN fn_out.status = "skipped"
            ELSE fn_out.end_line \in {fn_in.activity_data[k].line : k \in after}

(***************************************************************************)
(* Claim C9.                                                               *)
(***************************************************************************)
Abs(x) == IF x < 0 THEN -x ELSE x

\* C9: the rounded end time has seconds component 0 or 30, is at most 15
\* seconds from the unrounded time, is the nearest 30-second boundary, and
\* is the upper boundary when the seconds are 15 past a boundary; from 45
\* seconds on it carries into the minute (and at 21:59:50 into the hour).
C9_RoundsToNearestHalfMinute ==
    fn_pc = "done" =>
        LET e == fn_out.end_half
            r == fn_out.rounded_half
            whole == e \div 2
            s == whole % 60
            b == r \div 2
        IN  /\ b % 60 \in {0, 30}
            /\ Abs(r - e) <= 30
            /\ Abs(2 * b - e) <= 30
            /\ \A other \in {b - 30, b + 30} : Abs(2 * b - e) <= Abs(2 * other - e)
            /\ (s % 30 = 15) => (r = e + 30)
            /\ (s >= 45) => (b \div 60 = (whole \div 60) + 1 /\ b % 60 = 0)
            /\ (whole = 79190) => (fn_out.label = FileLabel(22, 0, 0))

\* the end time 21:59:45 has been rounded up, into the next hour
C9_Witness ==
    /\ fn_pc = "done"
    /\ fn_out.end_half \div 2 = 79185
    /\ fn_out.rounded_half \div 2 = 79200
    /\ fn_out.label = FileLabel(22, 0, 0)

(***************************************************************************)
(* Heartbeat resolution of one record (the first part of the loop body).   *)
(* status: "ok" | "skip" | "raise"; bound tells whether the local          *)
(* heartbeat_times has been assigned.                                      *)
(***************************************************************************)
HeartbeatsBase(record_id) ==
    [status |-> "ok", cause |-> "", exception |-> "", bound |-> FALSE,
     heartbeat_times |-> <<>>, heartbeats_file |-> heartbeats_files[record_id],
     edf_present |-> record_id \in edf_files, did_detect |-> FALSE,
     edf_was_available |-> record_id \in edf_files]

HeartbeatsSkip(record_id, cause) ==
    [HeartbeatsBase(record_id) EXCEPT !.status = "skip", !.cause = cause]

HeartbeatsOk(record_id, times) ==
    [HeartbeatsBase(record_id) EXCEPT !.bound = TRUE, !.heartbeat_times = times]

\* rpoints_filepath.is_file(), after the download the code attempts
RpointsAvailable(env) ==
    \/ env.rpoints_where = "local"
    \/ ~args.offline /\ env.rpoints_where = "listed"

\* heartbeat_indices / ecg.sampling_frequency
HeartbeatTimes(indices, fs) == [i \in 1..Len(indices) |-> indices[i] \div fs]

EdfKept_always_unlinks(edf_was_available) == args.keep_edfs

\* whether the .edf is in the data directory after the "ecg" branch
EdfKept(edf_was_available) == edf_was_available \/ args.keep_edfs

SavedHeartbeats_not_yet(record_id, times) == heartbeats_files[record_id]

\* the file np.save(heartbeats_file, heartbeat_times) leaves for record_id
SavedHeartbeats(record_id, times) == Array(times)

\* the heartbeats_source == "ecg" branch, the same in read_mesa and read_shhs
DetectFromEcg(record_id) ==
    LET edf_was_available == record_id \in edf_files
        times == HeartbeatTimes(EcgIndices(record_id), EcgSamplingFrequency)
    IN  IF args.offline /\ ~edf_was_available
        THEN [HeartbeatsBase(record_id) EXCEPT !.status = "raise",
                                               !.exception = "FileNotFoundError"]
        ELSE [HeartbeatsBase(record_id) EXCEPT
                 !.bound = TRUE, !.heartbeat_times = times,
                 !.heartbeats_file = SavedHeartbeats(record_id, times),
                 !.did_detect = TRUE,
                 !.edf_present = EdfKept(edf_was_available)]

\* heartbeat_times.sort() of read_mesa's "annotation" branch
SortedRpoints(times) == SortAscending(times)

MesaHeartbeats(record_id, env) ==
    IF args.heartbeats_source = "annotation"
    THEN IF RpointsAvailable(env)
         THEN HeartbeatsOk(record_id, SortedRpoints(env.rpoints))
         ELSE HeartbeatsSkip(record_id, "missing heartbeat annotations")
    ELSE IF args.heartbeats_source = "cached"
    THEN IF ~heartbeats_files[record_id].present
         THEN HeartbeatsSkip(record_id, "missing cached heartbeats")
         ELSE HeartbeatsOk(record_id, heartbeats_files[record_id].data)
    ELSE DetectFromEcg(record_id)

\* read_shhs: the sidecar is not sorted, and the "cached" branch assigns
\* nothing to heartbeat_times
ShhsHeartbeats(record_id, env) ==
    IF args.heartbeats_source = "annotation"
    THEN IF RpointsAvailable(env)
         THEN HeartbeatsOk(record_id, env.rpoints)
         ELSE HeartbeatsSkip(record_id, "missing heartbeat annotations")
    ELSE IF args.heartbeats_source = "cached"
    THEN IF ~heartbeats_files[record_id].present
         THEN HeartbeatsSkip(record_id, "missing cached heartbeats")
         ELSE HeartbeatsBase(record_id)
    ELSE DetectFromEcg(record_id)

\* the record ids the loop body downloads files for (_download_nsrr_file:
\* the sidecar or the .edf, then the annotation file), none when offline or
\* when the record is skipped before any download
NsrrFetched(record_id, hb) ==
    IF ~args.offline /\ hb.status # "skip" THEN {record_id} ELSE {}

\* the record ids the loop body reads files of (np.loadtxt, np.load,
\* read_edf and detect_heartbeats, then _parse_nsrr_xml)
NsrrDecoded(record_id, hb) == IF hb.status = "ok" THEN {record_id} ELSE {}

(***************************************************************************)
(* Activity counts of one MESA record.                                     *)
(***************************************************************************)
ActivityBase(record_id) ==
    [status |-> "ok", cause |-> "", exception |-> "", has_counts |-> FALSE,
     activity_counts |-> <<>>,
     activity_counts_file |-> activity_counts_files[record_id]]

ActivitySkip(record_id, cause) ==
    [ActivityBase(record_id) EXCEPT !.status = "skip", !.cause = cause]

MesaActivity(record_id, env, parsed_xml) ==
    IF args.activity_source = "none" THEN ActivityBase(record_id)
    ELSE IF args.activity_source = "cached"
    THEN IF ~activity_counts_files[record_id].present
         THEN ActivitySkip(record_id, "missing cached activity counts")
         ELSE [ActivityBase(record_id) EXCEPT
                  !.has_counts = TRUE,
                  !.activity_counts = activity_counts_files[record_id].data]
    ELSE IF record_id \notin overlap_data
    THEN ActivitySkip(record_id, "missing overlap data")
    ELSE IF ~args.offline /\ env.activity_where = "none"
    THEN [ActivityBase(record_id) EXCEPT !.status = "raise", !.exception = "KeyError"]
    ELSE IF args.offline /\ env.activity_where # "local"
    THEN ActivitySkip(record_id, "missing activity data")
    ELSE LET aligned == AlignActivity(parsed_xml, env.activity_data,
                                      OverlapLine(record_id))
         IN  IF aligned.status = "skipped"
             THEN ActivitySkip(record_id, aligned.cause)
             ELSE [ActivityBase(record_id) EXCEPT
                      !.has_counts = TRUE,
                      !.activity_counts = aligned.activity_counts,
                      !.activity_counts_file = Array(aligned.activity_counts)]

(***************************************************************************)
(* The loop body for one record id: what it does to the files and how it   *)
(* ends ("emitted": the yield; "skipped": a continue; "raised": an         *)
(* exception leaves the generator).                                        *)
(***************************************************************************)
SleepRecord(record_id, parsed_xml, heartbeat_times, act) ==
    [id |-> record_id, sleep_stages |-> parsed_xml.sleep_stages,
     sleep_stage_duration |-> parsed_xml.sleep_stage_duration,
     recording_start_time |-> parsed_xml.recording_start_time,
     heartbeat_times |-> heartbeat_times,
     has_activity_counts |-> act.has_counts,
     activity_counts |-> act.activity_counts]

RecordResult(record_id, hb, act, outcome, stage, cause, exception, record) ==
    [record_id |-> record_id, outcome |-> outcome, stage |-> stage,
     cause |-> cause, exception |-> exception, record |-> record,
     did_detect |-> hb.did_detect, edf_was_available |-> hb.edf_was_available,
     heartbeats_file |-> hb.heartbeats_file, edf_present |-> hb.edf_present,
     activity_counts_file |-> act.activity_counts_file, annot_st |-> <<>>]

MesaRecord(record_id, env) ==
    LET hb == MesaHeartbeats(record_id, env)
        parsed_xml == _parse_nsrr_xml(env.doc)
        act == MesaActivity(record_id, env, parsed_xml)
        none == ActivityBase(record_id)
    IN  IF hb.status = "skip"
        THEN RecordResult(record_id, hb, none, "skipped", "heartbeats", hb.cause, "", NoRecord)
        ELSE IF hb.status = "raise"
        THEN RecordResult(record_id, hb, none, "raised", "heartbeats", "", hb.exception, NoRecord)
        ELSE IF ~parsed_xml.ok
        THEN RecordResult(record_id, hb, none, "raised", "annotation", "",
                          parsed_xml.error, NoRecord)
        ELSE IF act.status = "skip"
        THEN RecordResult(record_id, hb, act, "skipped", "activity", act.cause, "", NoRecord)
        ELSE IF act.status = "raise"
        THEN RecordResult(record_id, hb, act, "raised", "activity", "", act.exception, NoRecord)
        ELSE IF record_id \notin subject_data
        THEN RecordResult(record_id, hb, act, "raised", "subject_data", "", "KeyError", NoRecord)
        ELSE RecordResult(record_id, hb, act, "emitted", "yield", "", "",
                          SleepRecord(record_id, parsed_xml, hb.heartbeat_times, act))

ShhsRecord(record_id, env) ==
    LET hb == ShhsHeartbeats(record_id, env)
        parsed_xml == _parse_nsrr_xml(env.doc)
        none == ActivityBase(record_id)
    IN  IF hb.status = "skip"
        THEN RecordResult(record_id, hb, none, "skipped", "heartbeats", hb.cause, "", NoRecord)
        ELSE IF hb.status = "raise"
        THEN RecordResult(record_id, hb, none, "raised", "heartbeats", "", hb.exception, NoRecord)
        ELSE IF ~parsed_xml.ok
        THEN RecordResult(record_id, hb, none, "raised", "annotation", "",
                          parsed_xml.error, NoRecord)
        ELSE IF ~hb.bound
        THEN RecordResult(record_id, hb, none, "raised", "yield", "",
                          "UnboundLocalError", NoRecord)
        ELSE IF record_id \notin subject_data
        THEN RecordResult(record_id, hb, none, "raised", "subject_data", "", "KeyError", NoRecord)
        ELSE RecordResult(record_id, hb, none, "emitted", "yield", "", "",
                          SleepRecord(record_id, parsed_xml, hb.heartbeat_times, none))

(***************************************************************************)
(* read_slpdb: the loop body for one record. An annotation of the .st file *)
(* is [sample, aux_note], aux_note a sequence of one-character strings;    *)
(* the annotations are in the order of their samples.                      *)
(***************************************************************************)
STAGE_MAPPING_slpdb ==
    ("W" :> WAKE) @@ ("R" :> REM) @@ ("1" :> N1) @@ ("2" :> N2) @@ ("3" :> N3)
    @@ ("4" :> N3)

Annotation(sample, aux_note) == [sample |-> sample, aux_note |-> aux_note]

\* record.fs of the records read
SlpdbFs == 2

\* annotation[0] in STAGE_MAPPING
IsStageCoded(annotation) == annotation.aux_note[1] \in DOMAIN STAGE_MAPPING_slpdb

\* the loop over the reversed annotations: <<sample_time // (30 * fs) + 1>> at
\* the break, <<>> when the loop ends without an assignment
RECURSIVE LastStageCount(_, _, _)
LastStageCount(annot_st, i, fs) ==
    IF i = 0 THEN <<>>
    ELSE IF IsStageCoded(annot_st[i]) THEN <<(annot_st[i].sample \div (30 * fs)) + 1>>
    ELSE LastStageCount(annot_st, i - 1, fs)

\* the loop writing STAGE_MAPPING[annotation[0]] at sample_time // (30 * fs)
RECURSIVE WriteStages(_, _, _, _)
WriteStages(annot_st, i, fs, acc) ==
    IF i > Len(annot_st) \/ acc.error # "" THEN acc
    ELSE IF ~IsStageCoded(annot_st[i]) THEN WriteStages(annot_st, i + 1, fs, acc)
    ELSE LET index == annot_st[i].sample \div (30 * fs)
         IN  IF index >= Len(acc.sleep_stages)
             THEN [acc EXCEPT !.error = "IndexError"]
             ELSE WriteStages(annot_st, i + 1, fs,
                      [acc EXCEPT !.sleep_stages[index + 1] =
                                      STAGE_MAPPING_slpdb[annot_st[i].aux_note[1]]])

\* np.full(number_of_sleep_stages, SleepStage.UNDEFINED), then the writes
SlpdbSleepStages(annot_st, fs, count) ==
    WriteStages(annot_st, 1, fs, [error |-> "", sleep_stages |-> Repeat(UNDEFINED, count)])

\* the value of number_of_sleep_stages after the first loop, given the value
\* the local carried when the iteration began
NumberOfSleepStages(annot_st, fs, carried) ==
    LET found == LastStageCount(annot_st, Len(annot_st), fs)
    IN  IF found # <<>> THEN found ELSE carried

SlpdbEnv(local, annot_st) == [local |-> local, annot_st |-> annot_st]

SlpdbAnnotations ==
    {<<Annotation(1, <<"W">>), Annotation(60, <<"1">>), Annotation(180, <<"4", " ", "L">>)>>,
     <<Annotation(1, <<"W">>), Annotation(60, <<"M", "T">>)>>,
     <<Annotation(1, <<"M", "T">>)>>}

\* offline, the record's .hea/.dat/.st are in the data directory or not;
\* otherwise download_physionet has put them there
SlpdbEnvs ==
    {SlpdbEnv(l, a) : l \in IF args.offline THEN BOOLEAN ELSE {TRUE},
                      a \in SlpdbAnnotations}

SlpdbRecord(record_id, env, carried) ==
    LET hb == HeartbeatsBase(record_id)
        none == ActivityBase(record_id)
        count == NumberOfSleepStages(env.annot_st, SlpdbFs, carried)
        heartbeat_times == HeartbeatTimes(EcgIndices(record_id), SlpdbFs)
    IN  IF ~env.local
        THEN RecordResult(record_id, hb, none, "raised", "rdrecord", "",
                          "FileNotFoundError", NoRecord)
        ELSE IF count = <<>>
        THEN RecordResult(record_id, hb, none, "raised", "sleep_stages", "",
                          "UnboundLocalError", NoRecord)
        ELSE LET written == SlpdbSleepStages(env.annot_st, SlpdbFs, count[1])
             IN  IF written.error # ""
                 THEN RecordResult(record_id, hb, none, "raised", "sleep_stages", "",
                                   written.error, NoRecord)
                 ELSE RecordResult(record_id, hb, none, "emitted", "yield", "", "",
                          SleepRecord(record_id,
                                      [sleep_stages |-> written.sleep_stages,
                                       sleep_stage_duration |-> 30,
                                       recording_start_time |-> 0],
                                      heartbeat_times, none))

PreludeFetch_every_dataset(dataset, offline) == IF ~offline THEN RecordIds ELSE {}

\* the record ids whose files the body downloads before its loop:
\* read_slpdb's download_physionet(requested_records=requested_records, ...)
PreludeFetch(dataset, offline) ==
    IF dataset = "slpdb" /\ ~offline THEN RecordIds ELSE {}

(***************************************************************************)
(* The sources a call requests that are unavailable for a record id,       *)
(* judged from the files alone (not from how far the loop body got).       *)
(***************************************************************************)
UnavailableSources(record_id, env) ==
    LET parsed_xml == _parse_nsrr_xml(env.doc)
        readable == IF args.offline THEN env.activity_where = "local"
                    ELSE env.activity_where # "none"
        alignable == /\ args.dataset = "mesa"
                     /\ args.activity_source = "actigraphy"
                     /\ record_id \in overlap_data
                     /\ readable
                     /\ parsed_xml.ok
        cause == IF alignable
                 THEN AlignActivity(parsed_xml, env.activity_data,
                                    OverlapLine(record_id)).cause
                 ELSE ""
    IN  {u \in {"rpoints sidecar", "cached heartbeats", "cached activity counts",
                "overlap entry", "end line", "length"} :
            \/ /\ u = "rpoints sidecar"
               /\ args.heartbeats_source = "annotation"
               /\ ~RpointsAvailable(env)
            \/ /\ u = "cached heartbeats"
               /\ args.heartbeats_source = "cached"
               /\ ~heartbeats_files[record_id].present
            \/ /\ u = "cached activity counts"
               /\ args.dataset = "mesa"
               /\ args.activity_source = "cached"
               /\ ~activity_counts_files[record_id].present
            \/ /\ u = "overlap entry"
               /\ args.dataset = "mesa"
               /\ args.activity_source = "actigraphy"
               /\ record_id \notin overlap_data
            \/ u = "end line" /\ cause = "missing line matching"
            \/ u = "length" /\ cause = "invalid activity counts"}

(***************************************************************************)
(* Subject metadata: class Gender and the per-dataset GENDER_MAPPING. A    *)
(* table is the sequence of the gender codes of its rows; an optional      *)
(* value is <<>> (None) or <<value>>.                                      *)
(***************************************************************************)
FEMALE == 0
MALE == 1

GENDER_MAPPING_mesa == (0 :> FEMALE) @@ (1 :> MALE)

GENDER_MAPPING_shhs == ("2" :> FEMALE) @@ ("1" :> MALE)

SubjectData(gender) == [gender |-> gender]

SubjectTable(ok, error, rows) == [ok |-> ok, error |-> error, subject_data |-> rows]

\* read_mesa: GENDER_MAPPING[gender] for every row of the dataset file
MesaSubjectData(codes) ==
    IF \E k \in 1..Len(codes) : codes[k] \notin DOMAIN GENDER_MAPPING_mesa
    THEN SubjectTable(FALSE, "KeyError", <<>>)
    ELSE SubjectTable(TRUE, "",
             [k \in 1..Len(codes) |-> SubjectData(<<GENDER_MAPPING_mesa[codes[k]]>>)])

\* dict.get(key): the value, or None
MapGet(mapping, key) == IF key \in DOMAIN mapping THEN <<mapping[key]>> ELSE <<>>

\* read_shhs: GENDER_MAPPING.get(row["gender"]) for every row
ShhsSubjectData(codes) ==
    SubjectTable(TRUE, "",
        [k \in 1..Len(codes) |-> SubjectData(MapGet(GENDER_MAPPING_shhs, codes[k]))])

MesaGenderCodes == {0, 1, 2, 9}

ShhsGenderCodes == {"1", "2", "0", ""}

SubjectInputs ==
    {[dataset |-> "mesa", codes |-> c] : c \in SeqsUpTo(MesaGenderCodes, MaxRows)}
    \cup {[dataset |-> "shhs", codes |-> c] : c \in SeqsUpTo(ShhsGenderCodes, MaxRows)}

(***************************************************************************)
(* SpecSubject: the subject table of one dataset file being loaded.        *)
(***************************************************************************)
InitSubject ==
    /\ fn_pc = "ready"
    /\ fn_in \in SubjectInputs
    /\ fn_out = SubjectTable(FALSE, "", <<>>)
    /\ DriverIdle
    /\ edf_files = {}

LoadMesaSubjectData ==
    /\ fn_pc = "ready"
    /\ fn_in.dataset = "mesa"
    /\ fn_out' = MesaSubjectData(fn_in.codes)
    /\ fn_pc' = "done"
    /\ UNCHANGED <<fn_in, driver_vars>>

LoadShhsSubjectData ==
    /\ fn_pc = "ready"
    /\ fn_in.dataset = "shhs"
    /\ fn_out' = ShhsSubjectData(fn_in.codes)
    /\ fn_pc' = "done"
    /\ UNCHANGED <<fn_in, driver_vars>>

NextSubject == LoadMesaSubjectData \/ LoadShhsSubjectData

SpecSubject == InitSubject /\ [][NextSubject]_vars

(***************************************************************************)
(* Claim C12.                                                              *)
(***************************************************************************)
GenderCodeMapped(dataset, code) ==
    IF dataset = "mesa" THEN code \in {0, 1} ELSE code \in {"1", "2"}

\* C12 as stated: loading the subject metadata never fails on a gender code,
\* and a row whose code is not in the dataset's mapping table (read_mesa:
\* {0, 1}; read_shhs: {"1", "2"}) gets gender None.
C12_UnmappedGenderIsNone ==
    fn_pc = "done" =>
        /\ fn_out.ok
        /\ \A k \in 1..Len(fn_in.codes) :
               ~GenderCodeMapped(fn_in.dataset, fn_in.codes[k]) =>
                   fn_out.subject_data[k].gender = <<>>

(***************************************************************************)
(* The calls a consumer makes and the tables the prelude loads.            *)
(***************************************************************************)
heartbeats_source_options == {"annotation", "cached", "ecg"}

activity_source_options == {"none", "cached", "actigraphy"}

\* keep_edfs is read in the "ecg" branch only; elsewhere it keeps its default.
\* read_slpdb has neither the source options nor keep_edfs.
CallArgs ==
    {a \in [dataset : {"mesa", "shhs"},
            heartbeats_source : heartbeats_source_options \cup {"detect"},
            activity_source : activity_source_options \cup {"raw"},
            offline : BOOLEAN, keep_edfs : BOOLEAN] :
        /\ a.dataset = "shhs" => a.activity_source = "none"
        /\ a.keep_edfs => a.heartbeats_source = "ecg"}
    \cup [dataset : {"slpdb"}, heartbeats_source : {""}, activity_source : {""},
          offline : BOOLEAN, keep_edfs : {FALSE}]

ValidArgs ==
    /\ args.heartbeats_source \in heartbeats_source_options
    /\ args.activity_source \in activity_source_options

\* the tables the prelude loads: a row for every record id, or for every
\* record id but the first requested one
IdTables == {RecordIds, RecordIds \ {requested_records[1]}}

(***************************************************************************)
(* Spec: a consumer calling an entry point and iterating the generator.    *)
(***************************************************************************)
Init ==
    /\ FnIdle
    /\ DriverIdle
    /\ edf_files \in {{}, RecordIds}

files == <<heartbeats_files, activity_counts_files, edf_files, detected>>

\* read_mesa(...) / read_shhs(...): a generator function, so the call only
\* creates the generator; no statement of the body runs
Call ==
    /\ pc \in {"idle", "done", "raised"}
    /\ calls < MaxCalls
    /\ args' \in CallArgs
    /\ pc' = "created"
    /\ calls' = calls + 1
    /\ GeneratorReset
    /\ UNCHANGED <<files, fn_vars>>

\* the first next(): the body up to the loop over requested_records
Start ==
    /\ pc = "created"
    /\ args.dataset \in {"mesa", "shhs"}
    /\ requests' = requests + 1
    /\ \/ /\ ~ValidArgs
          /\ pc' = "raised"
          /\ raised' = "ValueError"
          /\ UNCHANGED <<subject_data, overlap_data>>
       \/ /\ ValidArgs
          /\ args.offline /\ args.activity_source = "actigraphy"
          /\ pc' = "raised"
          /\ raised' = "RuntimeError"
          /\ UNCHANGED <<subject_data, overlap_data>>
       \/ /\ ValidArgs
          /\ args.dataset = "mesa"
          /\ \E codes \in SeqsUpTo(MesaGenderCodes, 1) : ~MesaSubjectData(codes).ok
          /\ pc' = "raised"
          /\ raised' = "KeyError"
          /\ UNCHANGED <<subject_data, overlap_data>>
       \/ /\ ValidArgs
          /\ pc' = "running"
          /\ subject_data' \in IdTables
          /\ overlap_data' \in IF args.activity_source = "actigraphy"
                               THEN IdTables ELSE {{}}
          /\ UNCHANGED raised
    /\ fetched' = IF pc' = "running" THEN PreludeFetch(args.dataset, args.offline)
                  ELSE fetched
    /\ UNCHANGED <<args, calls, next_index, printed, emitted, last, files, fn_vars,
                   decoded, number_of_sleep_stages>>

\* the first next() on read_slpdb's generator: the body up to its loop
StartSlpdb ==
    /\ pc = "created"
    /\ args.dataset = "slpdb"
    /\ requests' = requests + 1
    /\ pc' = "running"
    /\ fetched' = PreludeFetch(args.dataset, args.offline)
    /\ UNCHANGED <<args, calls, next_index, subject_data, overlap_data, printed,
                   emitted, raised, last, files, fn_vars, decoded,
                   number_of_sleep_stages>>

\* a later next(): the generator resumes after its yield
Resume ==
    /\ pc = "suspended"
    /\ pc' = "running"
    /\ requests' = requests + 1
    /\ UNCHANGED <<args, calls, next_index, subject_data, overlap_data, printed,
                   emitted, raised, last, files, fn_vars, fetched, decoded,
                   number_of_sleep_stages>>

NextIndex_repeats_yielded(index, outcome) == IF outcome = "skipped" THEN index + 1 ELSE index

\* the for loop's position after the body ended: a yield or a continue goes
\* on with the next id, an exception leaves the loop where it is
NextIndex(index, outcome) == IF outcome = "raised" THEN index ELSE index + 1

ApplyRecord(r, unavailable) ==
    /\ heartbeats_files' = [heartbeats_files EXCEPT ![r.record_id] = r.heartbeats_file]
    /\ activity_counts_files' =
           [activity_counts_files EXCEPT ![r.record_id] = r.activity_counts_file]
    /\ edf_files' = IF r.edf_present THEN edf_files \cup {r.record_id}
                    ELSE edf_files \ {r.record_id}
    /\ detected' = IF r.did_detect
                   THEN [detected EXCEPT ![r.record_id] = r.heartbeats_file]
                   ELSE detected
    /\ last' = [record_id |-> r.record_id, outcome |-> r.outcome, stage |-> r.stage,
                cause |-> r.cause, exception |-> r.exception, record |-> r.record,
                did_detect |-> r.did_detect,
                edf_was_available |-> r.edf_was_available,
                unavailable |-> unavailable, annot_st |-> r.annot_st]
    /\ printed' = IF r.outcome = "skipped"
                  THEN Append(printed, [record_id |-> r.record_id, cause |-> r.cause])
                  ELSE printed
    /\ emitted' = IF r.outcome = "emitted" THEN Append(emitted, r.record.id) ELSE emitted
    /\ raised' = IF r.outcome = "raised" THEN r.exception ELSE raised
    /\ pc' = IF r.outcome = "emitted" THEN "suspended"
             ELSE IF r.outcome = "skipped" THEN "running" ELSE "raised"
    /\ next_index' = NextIndex(next_index, r.outcome)
    /\ UNCHANGED <<args, calls, requests, subject_data, overlap_data, fn_vars>>

\* one iteration of read_mesa's loop over requested_records
ReadMesaRecord ==
    /\ pc = "running"
    /\ args.dataset = "mesa"
    /\ next_index <= NumRecords
    /\ \E env \in RecordEnvs :
          LET record_id == requested_records[next_index]
              hb == MesaHeartbeats(record_id, env)
          IN  /\ ApplyRecord(MesaRecord(record_id, env),
                             UnavailableSources(record_id, env))
              /\ fetched' = fetched \cup NsrrFetched(record_id, hb)
              /\ decoded' = decoded \cup NsrrDecoded(record_id, hb)
    /\ UNCHANGED number_of_sleep_stages

\* one iteration of read_shhs's loop over requested_records
ReadShhsRecord ==
    /\ pc = "running"
    /\ args.dataset = "shhs"
    /\ next_index <= NumRecords
    /\ \E env \in RecordEnvs :
          LET record_id == requested_records[next_index]
              hb == ShhsHeartbeats(record_id, env)
          IN  /\ ApplyRecord(ShhsRecord(record_id, env),
                             UnavailableSources(record_id, env))
              /\ fetched' = fetched \cup NsrrFetched(record_id, hb)
              /\ decoded' = decoded \cup NsrrDecoded(record_id, hb)
    /\ UNCHANGED number_of_sleep_stages

\* one iteration of read_slpdb's loop over requested_records
ReadSlpdbRecord ==
    /\ pc = "running"
    /\ args.dataset = "slpdb"
    /\ next_index <= NumRecords
    /\ \E env \in SlpdbEnvs :
          LET record_id == requested_records[next_index]
          IN  /\ ApplyRecord([SlpdbRecord(record_id, env, number_of_sleep_stages)
                                 EXCEPT !.annot_st = env.annot_st], {})
              /\ decoded' = IF env.local THEN decoded \cup {record_id} ELSE decoded
              /\ number_of_sleep_stages' =
                     IF env.local
                     THEN NumberOfSleepStages(env.annot_st, SlpdbFs, number_of_sleep_stages)
                     ELSE number_of_sleep_stages
    /\ UNCHANGED fetched

\* the loop is over: the generator returns (StopIteration)
Exhaust ==
    /\ pc = "running"
    /\ next_index > NumRecords
    /\ pc' = "done"
    /\ UNCHANGED <<args, calls, requests, next_index, subject_data, overlap_data,
                   printed, emitted, raised, last, files, fn_vars, fetched, decoded,
                   number_of_sleep_stages>>

Next ==
    \/ Call
    \/ Start
    \/ StartSlpdb
    \/ Resume
    \/ ReadMesaRecord
    \/ ReadShhsRecord
    \/ ReadSlpdbRecord
    \/ Exhaust

Spec == Init /\ [][Next]_vars

(***************************************************************************)
(* Claim C1.                                                               *)
(***************************************************************************)
\* C1 as stated: an annotation file rejected by _parse_nsrr_xml, or a record
\* id without a row in the subject table, ends only that record: no
\* exception reaches the consumer and the generator goes on to the later ids.
C1_FailureEndsOnlyThatRecord ==
    (last.outcome # "none" /\ last.stage \in {"annotation", "subject_data"}) =>
        (last.outcome = "skipped" /\ pc # "raised" /\ raised = "")

(***************************************************************************)
(* Claim C2.                                                               *)
(***************************************************************************)
\* C2 as stated: in every emitted SleepRecord heartbeat_times is
\* non-decreasing, for both drivers and every heartbeats_source.
C2_HeartbeatTimesNonDecreasing ==
    last.outcome = "emitted" => IsNonDecreasing(last.record.heartbeat_times)

(***************************************************************************)
(* Claim C5.                                                               *)
(***************************************************************************)
\* C5 as stated: an invalid heartbeats_source or activity_source is rejected
\* when the entry point is called, before the consumer requests a record.
C5_RejectedAtCall ==
    (pc # "idle" /\ args.dataset \in {"mesa", "shhs"} /\ ~ValidArgs) =>
        (pc = "raised" /\ requests = 0)

(***************************************************************************)
(* Claim C6.                                                               *)
(***************************************************************************)
\* C6 as stated, for the heartbeat cache: once an "ecg" run has persisted the
\* heartbeats of a record id, a "cached" run emits, for that id, a record
\* whose heartbeat_times equals the array computed for that id (the record
\* being one that nothing else skips or fails).
C6_CachedHeartbeatsRoundTrip ==
    (/\ last.outcome # "none"
     /\ args.heartbeats_source = "cached"
     /\ detected[last.record_id].present
     /\ last.stage \notin {"annotation", "activity", "subject_data"}) =>
        /\ last.outcome = "emitted"
        /\ last.record.heartbeat_times = detected[last.record_id].data

(***************************************************************************)
(* Claim C7.                                                               *)
(***************************************************************************)
CauseOf ==
    ("rpoints sidecar" :> "missing heartbeat annotations")
    @@ ("cached heartbeats" :> "missing cached heartbeats")
    @@ ("cached activity counts" :> "missing cached activity counts")
    @@ ("overlap entry" :> "missing overlap data")
    @@ ("end line" :> "missing line matching")
    @@ ("length" :> "invalid activity counts")

\* C7 as stated: whenever a requested source is unavailable for a record id,
\* no record is emitted for it, no exception is raised, a diagnostic naming
\* the id and the cause is printed, and the generator goes on; the three
\* alignment exits print pairwise distinct causes.
C7_UnavailableIsSkippedWithCause ==
    (last.outcome # "none" /\ last.unavailable # {}) =>
        /\ last.outcome = "skipped"
        /\ raised = ""
        /\ printed # <<>>
        /\ printed[Len(printed)].record_id = last.record_id
        /\ \E u \in last.unavailable : printed[Len(printed)].cause = CauseOf[u]
        /\ Cardinality({CauseOf[u] : u \in {"overlap entry", "end line", "length"}}) = 3

PositionOf(record_id) ==
    CHOOSE i \in 1..Len(requested_records) : requested_records[i] = record_id

EmittedIds == {emitted[i] : i \in 1..Len(emitted)}

SkippedIds == {printed[i].record_id : i \in 1..Len(printed)}

\* every earlier requested id has been emitted or skipped, and the consumer
\* has asked for more than the records emitted before this one
OnDemand(record_id) ==
    /\ \A i \in 1..(PositionOf(record_id) - 1) :
           requested_records[i] \in EmittedIds \cup SkippedIds
    /\ requests > Cardinality({q \in EmittedIds : PositionOf(q) < PositionOf(record_id)})

\* C13 as stated: in read_mesa, read_shhs and read_slpdb the files of a
\* record are fetched and decoded only once the consumer has requested that
\* record, all earlier records having been emitted or skipped.
C13_NoWorkAheadOfDemand ==
    \A r \in fetched \cup decoded : OnDemand(r)

\* C13 amended: decoding is on demand in the three generators and fetching
\* is on demand in read_mesa and read_shhs; read_slpdb, unless offline,
\* fetches the files of all requested records at the first request, and
\* nothing before it.
C13_DecodeOnDemandFetchPerDataset ==
    /\ \A r \in decoded : OnDemand(r)
    /\ args.dataset # "slpdb" => \A r \in fetched : OnDemand(r)
    /\ args.dataset = "slpdb" =>
           /\ fetched \in {{}, RecordIds}
           /\ fetched # {} <=> (~args.offline /\ pc \in {"running", "suspended", "done", "raised"})
           /\ fetched # {} => requests >= 1

\* read_slpdb has yielded its first record: only that record is decoded,
\* the files of all records are fetched
C13_Witness ==
    /\ args.dataset = "slpdb"
    /\ pc = "suspended"
    /\ emitted = <<requested_records[1]>>
    /\ decoded = {requested_records[1]}
    /\ fetched = RecordIds

(***************************************************************************)
(* Claim C14.                                                              *)
(***************************************************************************)
Finished == pc \in {"done", "raised"}

\* heartbeats and activity counts cached by earlier runs
CachedHeartbeats(record_id) ==
    Array(HeartbeatTimes(EcgIndices(record_id), EcgSamplingFrequency))

CachedActivityCounts(record_id) == Array(<<3, 0>>)

\* the data directory before the call: with or without the files earlier
\* runs leave in it
InitFair ==
    /\ FnIdle
    /\ GeneratorIdle
    /\ edf_files \in {{}, RecordIds}
    /\ heartbeats_files \in {[r \in RecordIds |-> NoArray],
                              [r \in RecordIds |-> CachedHeartbeats(r)]}
    /\ activity_counts_files \in {[r \in RecordIds |-> NoArray],
                                   [r \in RecordIds |-> CachedActivityCounts(r)]}
    /\ detected = [r \in RecordIds |-> NoArray]

\* a single call of an entry point
CallOnce == calls = 0 /\ Call

NextFair ==
    \/ CallOnce
    \/ Start
    \/ StartSlpdb
    \/ Resume
    \/ ReadMesaRecord
    \/ ReadShhsRecord
    \/ ReadSlpdbRecord
    \/ Exhaust

\* SpecFair: one generator, whose consumer keeps requesting records and
\* which runs when asked
SpecFair ==
    /\ InitFair
    /\ [][NextFair]_vars
    /\ WF_vars(Start)
    /\ WF_vars(StartSlpdb)
    /\ WF_vars(Resume)
    /\ WF_vars(ReadMesaRecord)
    /\ WF_vars(ReadShhsRecord)
    /\ WF_vars(ReadSlpdbRecord)
    /\ WF_vars(Exhaust)

\* C14: the ids emitted by a generator are requested ids in strictly
\* increasing position of the requested list (each at most once, order
\* preserved), a generator that has ended emits nothing more, and a
\* generator whose consumer keeps requesting ends.
C14_FiniteSinglePass ==
    /\ [](/\ \A i \in 1..Len(emitted) :
               emitted[i] \in {requested_records[k] : k \in 1..Len(requested_records)}
          /\ \A i, j \in 1..Len(emitted) :
               i < j => PositionOf(emitted[i]) < PositionOf(emitted[j])
          /\ next_index <= Len(requested_records) + 1)
    /\ [][(Finished /\ calls' = calls) => (emitted' = emitted /\ Finished')]_vars
    /\ (pc = "created") ~> Finished

\* a generator that emitted every requested id, in order, and ended
C14_Witness ==
    /\ pc = "done"
    /\ emitted = requested_records
    /\ requests = Len(requested_records) + 1

(***************************************************************************)
(* Claim C16.                                                              *)
(***************************************************************************)
\* C16: in "ecg" mode the heartbeat cache holds the detected array of every
\* id whose detection completed in this run, also when the id then failed or
\* was skipped; and the activity-count cache entry of an id changes only
\* when that id passed every alignment check.
C16_HeartbeatsCachedBeforeParse ==
    /\ []((args.dataset \in {"mesa", "shhs"} /\ args.heartbeats_source = "ecg") =>
            \A r \in decoded :
                heartbeats_files[r]
                    = Array(HeartbeatTimes(EcgIndices(r), EcgSamplingFrequency)))
    /\ [][\A r \in RecordIds :
              activity_counts_files'[r] # activity_counts_files[r] =>
                  /\ r = last'.record_id
                  /\ args.activity_source = "actigraphy"
                  /\ last'.unavailable \cap {"overlap entry", "end line", "length"} = {}
                  /\ last'.stage \in {"yield", "subject_data"}]_vars

\* detection completed for a record whose annotation file was then
\* rejected: the heartbeat cache holds the record's array
C16_Witness ==
    /\ args.heartbeats_source = "ecg"
    /\ last.did_detect
    /\ last.outcome = "raised"
    /\ last.stage = "annotation"
    /\ heartbeats_files[last.record_id].present

(***************************************************************************)
(* Claim C17.                                                              *)
(***************************************************************************)
StageWindows(annot_st) ==
    {annot_st[i].sample \div (30 * SlpdbFs) :
        i \in {k \in 1..Len(annot_st) : annot_st[k].aux_note[1] \in {"W", "R", "1", "2", "3", "4"}}}

\* C17 as stated: read_slpdb emits every record it has read with a
\* sleep_stages array whose length is the window of the record's own last
\* stage-coded annotation plus one (no window when it has none), with
\* UNDEFINED in every window without a stage-coded annotation; no write is
\* out of bounds and nothing carries over from the record read before.
C17_StagesFromOwnAnnotations ==
    (args.dataset = "slpdb" /\ last.outcome # "none" /\ last.stage # "rdrecord") =>
        LET windows == StageWindows(last.annot_st)
            expected == IF windows = {} THEN 0
                        ELSE (CHOOSE w \in windows : \A v \in windows : v <= w) + 1
        IN  /\ last.outcome = "emitted"
            /\ Len(last.record.sleep_stages) = expected
            /\ \A w \in 1..Len(last.record.sleep_stages) :
                   (w - 1) \notin windows => last.record.sleep_stages[w] = UNDEFINED

====
